---- MODULE Spec2Model ----
(***************************************************************************)
(* Model of the product-image pipeline of anti_maven (src/agents.py,       *)
(* class ImageSearchAgent): scrape_product_images, validate_image and      *)
(* find_product_image, with the network, the search provider and the       *)
(* image decoder as nondeterministic collaborators.                        *)
(* Spec follows one find_product_image call at a time; SessionSpec the     *)
(* personalization session store and StreamSpec overlapping research runs  *)
(* with their progress events (src/main.py, src/agent_graph.py).           *)
(***************************************************************************)
EXTENDS Integers, Sequences, FiniteSets, TLC

(***************************************************************************)
(* Bounds of the model.                                                    *)
(***************************************************************************)
\* longest list the search provider returns
MaxResults == 4
\* number of plain <img> tags on the largest page of the model
BigImgs == 16

(***************************************************************************)
(* Strings.  A string the code only tests for substrings is modelled by    *)
(* its name and a table of the terms it contains.                          *)
(***************************************************************************)
ContainsTable ==
    { <<"images.amazon.com", "amazon.com">>,
      <<"www.amazon.com", "amazon.com">>,
      <<"acme-front", "acme">>,
      <<"acme-side", "acme">>,
      <<"acme-logo", "acme">>,
      <<"acme-logo", "logo">>,
      <<"site-logo", "logo">>,
      <<"acme phone front view", "acme">>,
      <<"acme phone front view", "phone">> }

\* Python's `t in s` for the strings of the model
Contains(s, t) == <<s, t>> \in ContainsTable

\* self.official_domains
official_domains == { "amazon.com", "bestbuy.com", "walmart.com" }

\* any(official in domain for official in self.official_domains)
IsOfficial(host) == \E official \in official_domains : Contains(host, official)

\* product_name.lower().split()[:3]
NameTokens(product_name) ==
    IF product_name = "acme phone" THEN { "acme", "phone" } ELSE {}

ProductNames == { "", "acme phone" }

(***************************************************************************)
(* Image references as they appear in markup.                              *)
(*   abs   : absolute http(s) URL                                          *)
(*   rel   : relative reference ("/img/x.jpg")                             *)
(*   data  : a URI of another scheme ("data:image/png;base64,...")         *)
(*   empty : the empty string                                              *)
(*   obj   : a JSON object (unhashable dict), only inside JSON-LD          *)
(*   none  : attribute absent (None)                                       *)
(***************************************************************************)
Abs(h, p) == [kind |-> "abs", host |-> h, path |-> p]
Rel(p)    == [kind |-> "rel", host |-> "", path |-> p]
DataUri   == [kind |-> "data", host |-> "", path |-> "inline"]
EmptyStr  == [kind |-> "empty", host |-> "", path |-> ""]
JsonObj   == [kind |-> "obj", host |-> "", path |-> ""]
NoRef     == [kind |-> "none", host |-> "", path |-> ""]

\* Python truthiness of an attribute value
Truthy(ref) == ref.kind \notin { "none", "empty" }

\* str.startswith('http')
StartsWithHttp(ref) == ref.kind = "abs"

\* urllib.parse.urljoin(url, src) for a page served from host base
urljoin(base, ref) ==
    IF ref.kind = "rel" THEN Abs(base, ref.path) ELSE ref

\* urlparse(u).netloc.lower()
Netloc(ref) == ref.host

\* a or b or c
FirstTruthy(a, b, c) == IF Truthy(a) THEN a ELSE IF Truthy(b) THEN b ELSE c

(***************************************************************************)
(* Pages.  A page is what BeautifulSoup finds in the fetched markup.       *)
(***************************************************************************)
Img(cls, src, dsrc, lazy, alt) ==
    [cls |-> cls, src |-> src, dsrc |-> dsrc, lazy |-> lazy, alt |-> alt]

\* JSON-LD script: shape is str | list | emptylist | other | malformed
Ld(shape, ref) == [shape |-> shape, ref |-> ref]

Page(og, tw, ld, imgs) == [og |-> og, tw |-> tw, ld |-> ld, imgs |-> imgs]

Cand(url, source, priority, alt) ==
    [url |-> url, source |-> source, priority |-> priority, alt |-> alt]

\* lines 211-217
OgCandidates(page, is_official) ==
    IF Truthy(page.og)
    THEN << Cand(page.og, "og_image", IF is_official THEN 10 ELSE 8, "") >>
    ELSE << >>

\* lines 220-226
TwitterCandidates(page, is_official) ==
    IF Truthy(page.tw)
    THEN << Cand(page.tw, "twitter_image", IF is_official THEN 9 ELSE 7, "") >>
    ELSE << >>

\* lines 229-249
RECURSIVE JsonLdCandidates(_, _)
JsonLdCandidates(scripts, is_official) ==
    IF scripts = << >> THEN << >>
    ELSE LET s == Head(scripts)
             rest == JsonLdCandidates(Tail(scripts), is_official)
         IN IF s.shape \in { "str", "list" }
            THEN << Cand(s.ref, "json_ld", IF is_official THEN 10 ELSE 8, "") >> \o rest
            ELSE rest

\* soup.find_all('img', class_=...)
RECURSIVE ClassMatched(_)
ClassMatched(imgs) ==
    IF imgs = << >> THEN << >>
    ELSE IF Head(imgs).cls THEN << Head(imgs) >> \o ClassMatched(Tail(imgs))
         ELSE ClassMatched(Tail(imgs))

\* product_images[:5]
FirstN(s, n) == SubSeq(s, 1, IF Len(s) < n THEN Len(s) ELSE n)

\* any(kw in alt.lower() for kw in product_name.lower().split()[:3])
AltHasKeyword(alt, product_name) ==
    \E kw \in NameTokens(product_name) : Contains(alt, kw)

\* lines 256-272
RECURSIVE ProductImgCandidates(_, _, _, _)
ProductImgCandidates(imgs, base, is_official, product_name) ==
    IF imgs = << >> THEN << >>
    ELSE LET img == Head(imgs)
             src == FirstTruthy(img.src, img.dsrc, img.lazy)
             absolute_url == urljoin(base, src)
             priority == (IF is_official THEN 7 ELSE 5)
                         + (IF product_name # "" /\ AltHasKeyword(img.alt, product_name)
                            THEN 1 ELSE 0)
             rest == ProductImgCandidates(Tail(imgs), base, is_official, product_name)
         IN IF Truthy(src) /\ StartsWithHttp(absolute_url)
            THEN << Cand(absolute_url, "product_img_class", priority, img.alt) >> \o rest
            ELSE rest

BannedTerms == { "icon", "logo", "sprite", "pixel", "blank", "avatar" }

\* any(x in absolute_url.lower() for x in ['icon', 'logo', ...])
HasBannedTerm(ref) ==
    \E x \in BannedTerms : Contains(ref.host, x) \/ Contains(ref.path, x)

\* lines 277-293: acc is image_candidates so far
RECURSIVE GenericImgCandidates(_, _, _, _)
GenericImgCandidates(imgs, base, is_official, acc) ==
    IF imgs = << >> THEN acc
    ELSE LET img == Head(imgs)
             src == FirstTruthy(img.src, img.dsrc, NoRef)
             absolute_url == urljoin(base, src)
         IN IF Truthy(src) /\ StartsWithHttp(absolute_url) /\ ~HasBannedTerm(absolute_url)
            THEN LET acc2 == Append(acc, Cand(absolute_url, "img_tag",
                                              IF is_official THEN 3 ELSE 2, img.alt))
                 IN IF Len(acc2) >= 15 THEN acc2
                    ELSE GenericImgCandidates(Tail(imgs), base, is_official, acc2)
            ELSE GenericImgCandidates(Tail(imgs), base, is_official, acc)

\* variant: no duplicate removal
Unique_KeepAll(cands, seen_urls) == cands

\* variant: the last entry of a url is the one kept
Unique_KeepLast(cands, seen_urls) ==
    LET keep == { i \in 1..Len(cands) :
                    /\ cands[i].url \notin seen_urls
                    /\ \A j \in (i + 1)..Len(cands) : cands[j].url # cands[i].url }
    IN [ k \in 1..Cardinality(keep) |->
           cands[CHOOSE i \in keep : Cardinality({ j \in keep : j <= i }) = k] ]

\* lines 295-301
RECURSIVE Unique(_, _)
Unique(cands, seen_urls) ==
    IF cands = << >> THEN << >>
    ELSE IF Head(cands).url \in seen_urls
         THEN Unique(Tail(cands), seen_urls)
         ELSE << Head(cands) >> \o Unique(Tail(cands), seen_urls \cup { Head(cands).url })

\* variant: every class-matched image is taken, not the first five
ImageCandidates_NoClassCap(page, base, product_name) ==
    LET is_official == IsOfficial(base)
        found == OgCandidates(page, is_official)
                 \o TwitterCandidates(page, is_official)
                 \o JsonLdCandidates(page.ld, is_official)
                 \o ProductImgCandidates(ClassMatched(page.imgs), base,
                                         is_official, product_name)
    IN IF Len(found) < 5
       THEN GenericImgCandidates(page.imgs, base, is_official, found)
       ELSE found

\* variant: the scan of all image tags runs whatever was found before
ImageCandidates_AlwaysGeneric(page, base, product_name) ==
    LET is_official == IsOfficial(base)
        found == OgCandidates(page, is_official)
                 \o TwitterCandidates(page, is_official)
                 \o JsonLdCandidates(page.ld, is_official)
                 \o ProductImgCandidates(FirstN(ClassMatched(page.imgs), 5), base,
                                         is_official, product_name)
    IN GenericImgCandidates(page.imgs, base, is_official, found)

\* image_candidates before the duplicate removal (lines 204-293)
ImageCandidates(page, base, product_name) ==
    LET is_official == IsOfficial(base)
        found == OgCandidates(page, is_official)
                 \o TwitterCandidates(page, is_official)
                 \o JsonLdCandidates(page.ld, is_official)
                 \o ProductImgCandidates(FirstN(ClassMatched(page.imgs), 5), base,
                                         is_official, product_name)
    IN IF Len(found) < 5
       THEN GenericImgCandidates(page.imgs, base, is_official, found)
       ELSE found

\* `x not in seen_urls` raises TypeError for an unhashable x
Unhashable(cands) == \E i \in 1..Len(cands) : cands[i].url.kind = "obj"

\* scrape_product_images (lines 194-306); ok = FALSE is a failed page fetch
\* (requests.get or raise_for_status raising), which line 304 turns into []
scrape_product_images(ok, page, base, product_name) ==
    IF ~ok THEN << >>
    ELSE LET image_candidates == ImageCandidates(page, base, product_name)
         IN IF Unhashable(image_candidates) THEN << >>
            ELSE Unique(image_candidates, {})

(***************************************************************************)
(* Image validation.                                                       *)
(***************************************************************************)
\* what the image host and the decoder can answer to one fetch
\* bytes is len(response.content)
Resp(kind, w, h, bytes) == [kind |-> kind, w |-> w, h |-> h, bytes |-> bytes]
FailedResponses ==
    { Resp("error", 0, 0, 0), Resp("nonimage", 0, 0, 0), Resp("undecodable", 0, 0, 0) }

\* body sizes: 40 KB, and 3000 KB for a large file
SmallBody == 40960
LargeBody == 3072000

\* the images a host may serve at a path: << width, height, bytes >>
ImageAt(path) ==
    CASE path = "acme-front" -> { <<1200, 1200, SmallBody>>, <<250, 250, SmallBody>> }
      [] path = "acme-side"  -> { <<1200, 400, SmallBody>>, <<1200, 1200, SmallBody>> }
      [] path = "hero"       -> { <<400, 400, SmallBody>> }
      [] path = "banner"     -> { <<180, 300, SmallBody>> }
      [] path = "gal2"       -> { <<250, 250, SmallBody>>, <<250, 250, LargeBody>> }
      [] OTHER               -> { <<250, 250, SmallBody>> }

Responses(ref) ==
    FailedResponses \cup { Resp("image", d[1], d[2], d[3]) : d \in ImageAt(ref.path) }

\* round(width / height, 2), in hundredths (ties to even)
AspectRatio(width, height) ==
    LET q == (100 * width) \div height
        r == (100 * width) % height
    IN IF 2 * r < height THEN q
       ELSE IF 2 * r > height THEN q + 1
       ELSE IF q % 2 = 0 THEN q ELSE q + 1

\* any(keyword in url_lower for keyword in product_name.lower().split()[:3])
UrlHasKeyword(ref, product_name) ==
    \E keyword \in NameTokens(product_name) :
        Contains(ref.host, keyword) \/ Contains(ref.path, keyword)

\* variant: rejects only when both dimensions are small
TooSmall_Both(width, height) == width < 200 /\ height < 200

\* the dimension test of line 136
TooSmall(width, height) == width < 200 \/ height < 200

\* validate_image (lines 116-159): << >> is None, << m >> is the metadata.
\* requests.get raises for a reference that is not an http(s) URL, and every
\* exception ends in the `return None` of line 159
validate_image(image_url, product_name, resp) ==
    IF ~StartsWithHttp(image_url) THEN << >>
    ELSE IF resp.kind # "image" THEN << >>
    ELSE IF TooSmall(resp.w, resp.h) THEN << >>
    ELSE << [url |-> image_url,
             width |-> resp.w,
             height |-> resp.h,
             aspect_ratio |-> AspectRatio(resp.w, resp.h),
             size_kb |-> resp.bytes \div 1024,
             has_product_keywords |-> UrlHasKeyword(image_url, product_name)] >>

\* variant: the candidate's priority is taken over without any boost
Enrich_NoBoost(metadata, candidate) ==
    [url |-> metadata.url,
     width |-> metadata.width,
     height |-> metadata.height,
     aspect_ratio |-> metadata.aspect_ratio,
     size_kb |-> metadata.size_kb,
     has_product_keywords |-> metadata.has_product_keywords,
     source |-> candidate.source,
     alt |-> candidate.alt,
     priority |-> candidate.priority]

\* variant: the boost for an official host is given to every host
Enrich_EveryHostOfficial(metadata, candidate) ==
    [Enrich_NoBoost(metadata, candidate) EXCEPT
        !.priority = @ + 2
                       + (IF metadata.has_product_keywords THEN 1 ELSE 0)
                       + (IF metadata.width >= 800 /\ metadata.height >= 800 THEN 1 ELSE 0)]

\* lines 341-359: the candidate's fields and the priority boosts
Enrich(metadata, candidate) ==
    [url |-> metadata.url,
     width |-> metadata.width,
     height |-> metadata.height,
     aspect_ratio |-> metadata.aspect_ratio,
     size_kb |-> metadata.size_kb,
     has_product_keywords |-> metadata.has_product_keywords,
     source |-> candidate.source,
     alt |-> candidate.alt,
     priority |-> candidate.priority
                  + (IF IsOfficial(Netloc(metadata.url)) THEN 2 ELSE 0)
                  + (IF metadata.has_product_keywords THEN 1 ELSE 0)
                  + (IF metadata.width >= 800 /\ metadata.height >= 800 THEN 1 ELSE 0)]

\* variant: no reward for resolution
score_image_NoResolution(meta) ==
    meta.priority
    + (IF meta.has_product_keywords THEN 1 ELSE 0)
    - (IF meta.aspect_ratio < 60 \/ meta.aspect_ratio > 180 THEN 1 ELSE 0)

\* variant: the priority is subtracted
score_image_PriorityPenalty(meta) ==
    (IF meta.width >= 800 /\ meta.height >= 800 THEN 2
     ELSE IF meta.width >= 400 /\ meta.height >= 400 THEN 1 ELSE 0)
    + (IF meta.has_product_keywords THEN 1 ELSE 0)
    - (IF meta.aspect_ratio < 60 \/ meta.aspect_ratio > 180 THEN 1 ELSE 0)
    - meta.priority

\* score_image (lines 369-383); aspect_ratio is in hundredths
score_image(meta) ==
    meta.priority
    + (IF meta.width >= 800 /\ meta.height >= 800 THEN 2
       ELSE IF meta.width >= 400 /\ meta.height >= 400 THEN 1 ELSE 0)
    + (IF meta.has_product_keywords THEN 1 ELSE 0)
    - (IF meta.aspect_ratio < 60 \/ meta.aspect_ratio > 180 THEN 1 ELSE 0)

(***************************************************************************)
(* list.sort(key=..., reverse=True): a stable sort.  The element at index  *)
(* d goes behind every element with a larger key and behind the elements   *)
(* with an equal key that stood before it.                                 *)
(***************************************************************************)
PriorityRank(s, d) ==
    1 + Cardinality({ e \in 1..Len(s) :
                        \/ s[e].priority > s[d].priority
                        \/ s[e].priority = s[d].priority /\ e < d })

\* all_candidates.sort(key=lambda x: x.get('priority', 0), reverse=True)
SortByPriority(s) ==
    [ i \in 1..Len(s) |-> s[CHOOSE d \in 1..Len(s) : PriorityRank(s, d) = i] ]

\* variant: among equal scores the later entry comes first
ScoreRank_LaterFirst(s, d) ==
    1 + Cardinality({ e \in 1..Len(s) :
                        \/ score_image(s[e]) > score_image(s[d])
                        \/ score_image(s[e]) = score_image(s[d]) /\ e > d })

ScoreRank(s, d) ==
    1 + Cardinality({ e \in 1..Len(s) :
                        \/ score_image(s[e]) > score_image(s[d])
                        \/ score_image(s[e]) = score_image(s[d]) /\ e < d })

\* validated_images.sort(key=score_image, reverse=True)
SortByScore(s) ==
    [ i \in 1..Len(s) |-> s[CHOOSE d \in 1..Len(s) : ScoreRank(s, d) = i] ]

\* lines 364-386: the url find_product_image returns after validation
SelectImage(cands, validated) ==
    IF validated = << >>
    THEN (IF cands # << >> THEN cands[1].url ELSE EmptyStr)
    ELSE SortByScore(validated)[1].url

(***************************************************************************)
(* The pages and search results the network can serve.                     *)
(***************************************************************************)
ImageHost == "images.amazon.com"
CdnHost == "cdn.shop.net"
PageHosts == { "www.amazon.com", "shop.example.org" }

FillerNames ==
    << "p01", "p02", "p03", "p04", "p05", "p06", "p07", "p08", "p09", "p10",
       "p11", "p12", "p13", "p14", "p15", "p16", "p17", "p18", "p19", "p20" >>

PlainImg(ref) == Img(FALSE, ref, NoRef, NoRef, "")

\* a class-matched image with a relative src, a logo, a data URI, a lazy image
MixedImgs ==
    << Img(TRUE, Rel("acme-side"), NoRef, NoRef, "acme phone front view"),
       PlainImg(Abs(CdnHost, "site-logo")),
       PlainImg(DataUri),
       Img(FALSE, NoRef, Abs(CdnHost, "banner"), NoRef, "") >>

\* six class-matched images: only the first five are looked at
GalleryImgs ==
    << Img(TRUE, Abs(CdnHost, "gal1"), NoRef, NoRef, ""),
       Img(TRUE, EmptyStr, NoRef, Abs(CdnHost, "gal2"), "acme phone front view"),
       Img(TRUE, Abs(CdnHost, "gal1"), NoRef, NoRef, ""),
       Img(TRUE, NoRef, Rel("gal3"), NoRef, ""),
       Img(TRUE, Abs(CdnHost, "acme-logo"), NoRef, NoRef, ""),
       Img(TRUE, Abs(CdnHost, "gal6"), NoRef, NoRef, "") >>

\* a page of BigImgs plain images
ManyImgs == [ i \in 1..BigImgs |-> PlainImg(Abs(CdnHost, FillerNames[i])) ]

\* the family of ordinary pages: every combination of the four sources
OgChoices == { NoRef, Abs(ImageHost, "acme-front") }
TwChoices == { NoRef, Abs(CdnHost, "acme-side") }
LdChoices == { << >>, << Ld("str", Abs(CdnHost, "hero")) >> }
ImgChoices == { << >>, MixedImgs }

\* pages with one peculiarity each
SpecialPages ==
    { \* the same image under three sources
      Page(Abs(ImageHost, "acme-front"), Abs(ImageHost, "acme-front"),
           << Ld("list", Abs(ImageHost, "acme-front")) >>, << >>),
      \* a relative og:image
      Page(Rel("hero"), NoRef, << >>, MixedImgs),
      \* JSON-LD whose image list starts with an object
      Page(Abs(ImageHost, "acme-front"), NoRef, << Ld("list", JsonObj) >>, << >>),
      \* JSON-LD whose image is the empty string
      Page(NoRef, NoRef, << Ld("str", EmptyStr) >>, << >>),
      \* a malformed JSON-LD block before a good one
      Page(NoRef, Abs(CdnHost, "acme-side"),
           << Ld("malformed", NoRef), Ld("list", Abs(CdnHost, "banner")) >>, << >>),
      \* a gallery
      Page(Abs(ImageHost, "acme-front"), NoRef, << >>, GalleryImgs),
      \* an og:image served by a host that is not on the list
      Page(Abs(CdnHost, "acme-front"), NoRef, << >>, << >>),
      \* many plain images
      Page(NoRef, NoRef, << >>, ManyImgs) }

\* pages a product URL can serve
Pages ==
    { Page(og, tw, ld, imgs) :
        og \in OgChoices, tw \in TwChoices, ld \in LdChoices, imgs \in ImgChoices }
    \cup SpecialPages

\* pages behind the URLs of search results, with the host serving them
WebPages ==
    { [host |-> "www.amazon.com",
       page |-> Page(Abs(ImageHost, "acme-front"), NoRef, << >>, << >>)],
      [host |-> "shop.example.org",
       page |-> Page(NoRef, NoRef, << >>, ManyImgs)] }

EmptyPage == Page(NoRef, NoRef, << >>, << >>)

\* outcome of requests.get + raise_for_status on a page URL
Fetched(pages) ==
    { [ok |-> FALSE, page |-> EmptyPage] } \cup { [ok |-> TRUE, page |-> p] : p \in pages }

\* how many references a scrape found before removing duplicates
Extracted(ok, page, base, product_name) ==
    IF ok THEN Len(ImageCandidates(page, base, product_name)) ELSE 0

\* image_candidates as it stands at line 295 (empty when the fetch failed)
Found(ok, page, base, product_name) ==
    IF ok THEN ImageCandidates(page, base, product_name) ELSE << >>

\* product_url: absent, a string that does not start with http, or an http URL
ProductUrls ==
    { [kind |-> "none", host |-> ""], [kind |-> "other", host |-> ""] }
    \cup { [kind |-> "http", host |-> h] : h \in PageHosts }

(***************************************************************************)
(* Literals of find_product_image.                                         *)
(***************************************************************************)
\* `len(all_candidates) < 5` of line 319
FewCandidates == 5
\* search_results[:3]
ResultSlice == 3
\* `len(all_candidates) >= 12` of line 327
CandidateCap == 12
\* all_candidates[:10]
TopCandidates == 10
\* `len(validated_images) >= 5` of line 361
EnoughValidated == 5

VARIABLES
    pc,                \* position inside find_product_image
    product_name,      \* arguments of the current call
    product_url,
    allow_web_search,
    all_candidates,    \* local of find_product_image
    candidates,        \* last value returned by scrape_product_images
    ri,                \* search results consumed by the loop of line 323
    vi,                \* candidates consumed by the loop of line 338
    validated_images,  \* local of find_product_image
    result,            \* value returned to the caller (NoRef: not returned yet)
    raised,            \* an exception left find_product_image
    extracted,         \* history: len(image_candidates) of the last scrape, before line 295
    image_candidates,  \* history: image_candidates of the last scrape, before line 295
    discovered,        \* history: all_candidates as extracted, before the sort
    outcomes,          \* history: what validate_image returned, per candidate
    searches,          \* history: search_tool.invoke calls of this call
    fetches            \* history: validate_image calls of this call

(***************************************************************************)
(* The HTTP server (src/main.py) and the progress registry                 *)
(* (src/agent_graph.py).                                                   *)
(***************************************************************************)
\* research requests followed at the same time
Runs == { 1, 2 }
\* progress messages one research run emits
MaxMessages == 2
\* session ids uuid4 hands out: 1, 2, ... up to MaxIds
MaxIds == 203
\* personalization_answers and session lookups of research requests
MaxRequests == 2

\* _MAX_SESSIONS of line 57
MAX_SESSIONS == 200

\* a session id no personalization_init has issued
UnknownId == 0
\* no session_id in the request
NoSession == -1
\* session ids clients send back
RequestIds == { 1, UnknownId }

\* the payload dict of a session: always with its four keys, so truthy
Payload(answered) == [answered |-> answered]
\* an OrderedDict is the sequence of its items, oldest first
Item(id, payload) == [id |-> id, payload |-> payload]
Keys(store) == { store[i].id : i \in 1..Len(store) }
\* OrderedDict.pop(session_id, None)
Pop(store, id) == SelectSeq(store, LAMBDA e : e.id # id)
\* OrderedDict.get(session_id)
Get(store, id) ==
    IF id \in Keys(store)
    THEN << (CHOOSE e \in { store[i] : i \in 1..Len(store) } : e.id = id).payload >>
    ELSE << >>

\* _session_put (lines 60-65): the store after the call
session_put(store, session_id, payload) ==
    LET put == Append(Pop(store, session_id), Item(session_id, payload))
    IN IF Len(put) > MAX_SESSIONS
       THEN SubSeq(put, Len(put) - MAX_SESSIONS + 1, Len(put))
       ELSE put

\* variant: a lookup leaves the session where it stands
session_get_NoTouch(store, session_id) ==
    [payload |-> Get(store, session_id), store |-> store]

\* _session_get (lines 68-75): << >> is None, << p >> the payload returned
session_get(store, session_id) ==
    LET payload == Get(store, session_id)
    IN IF payload = << >>
       THEN [payload |-> << >>, store |-> store]
       ELSE [payload |-> payload,
             store |-> Append(Pop(store, session_id), Item(session_id, payload[1]))]

VARIABLES
    kind,               \* per run: "none", "stream" (GET /api/research/stream) or "post"
    wpc,                \* per run: position of execute_research
    gpc,                \* per run: position of event_generator
    emitted,            \* per run: emit_progress calls made by its graph
    progress_callback,  \* agent_graph._progress_callback: 0 is None, r the callback of run r
    pending,            \* per run: call_soon_threadsafe callbacks the loop has not run yet
    message_queue,      \* per run: message_queue of its event_generator
    events,             \* per run: the SSE events sent
    delivered,          \* history, per run: the messages passed to its progress_callback
    sessions,           \* _PERSONALIZATION_SESSIONS
    next_id,            \* the next session id uuid4 gives
    requests,           \* requests carrying a session id served so far
    got,                \* history: the last _session_get, [id, payload]
    recency             \* history: the ids in the store, the least recently put or got first

stream == << kind, wpc, gpc, emitted, progress_callback, pending, message_queue,
             events, delivered >>
store == << sessions, next_id, requests, got, recency >>
server == << stream, store >>

ServerInit ==
    /\ kind = [r \in Runs |-> "none"]
    /\ wpc = [r \in Runs |-> "idle"]
    /\ gpc = [r \in Runs |-> "idle"]
    /\ emitted = [r \in Runs |-> 0]
    /\ progress_callback = 0
    /\ pending = [r \in Runs |-> << >>]
    /\ message_queue = [r \in Runs |-> << >>]
    /\ events = [r \in Runs |-> << >>]
    /\ delivered = [r \in Runs |-> << >>]
    /\ sessions = << >>
    /\ next_id = 1
    /\ requests = 0
    /\ got = [id |-> NoSession, payload |-> << >>]
    /\ recency = << >>

\* the variables of find_product_image
image == << pc, product_name, product_url, allow_web_search, all_candidates,
           candidates, ri, vi, validated_images, result, raised, extracted,
           image_candidates, discovered, outcomes, searches, fetches >>

vars == << image, server >>

inputs == << product_name, product_url, allow_web_search >>
history == << discovered, outcomes, searches, fetches >>

Init ==
    /\ pc = "idle"
    /\ product_name = ""
    /\ product_url = [kind |-> "none", host |-> ""]
    /\ allow_web_search = FALSE
    /\ all_candidates = << >>
    /\ candidates = << >>
    /\ ri = 0
    /\ vi = 0
    /\ validated_images = << >>
    /\ result = NoRef
    /\ raised = FALSE
    /\ extracted = 0
    /\ image_candidates = << >>
    /\ discovered = << >>
    /\ outcomes = << >>
    /\ searches = 0
    /\ fetches = 0
    /\ ServerInit

\* a caller invokes find_product_image(product_name, product_url, allow_web_search)
Call ==
    /\ pc = "idle"
    /\ product_name' \in ProductNames
    /\ product_url' \in ProductUrls
    /\ allow_web_search' \in BOOLEAN
    /\ pc' = "start"
    /\ all_candidates' = << >>
    /\ candidates' = << >>
    /\ ri' = 0
    /\ vi' = 0
    /\ validated_images' = << >>
    /\ result' = NoRef
    /\ raised' = FALSE
    /\ extracted' = 0
    /\ image_candidates' = << >>
    /\ discovered' = << >>
    /\ outcomes' = << >>
    /\ searches' = 0
    /\ fetches' = 0
    /\ UNCHANGED server

\* the caller has the returned value (or the exception); nothing of the call
\* outlives it
Return ==
    /\ pc = "done"
    /\ pc' = "idle"
    /\ product_name' = ""
    /\ product_url' = [kind |-> "none", host |-> ""]
    /\ allow_web_search' = FALSE
    /\ all_candidates' = << >>
    /\ candidates' = << >>
    /\ validated_images' = << >>
    /\ result' = NoRef
    /\ raised' = FALSE
    /\ extracted' = 0
    /\ image_candidates' = << >>
    /\ discovered' = << >>
    /\ outcomes' = << >>
    /\ searches' = 0
    /\ fetches' = 0
    /\ ri' = 0
    /\ vi' = 0
    /\ UNCHANGED server

\* lines 311-316
ScrapePrimary ==
    /\ pc = "start"
    /\ IF product_url.kind = "http"
       THEN \E f \in Fetched(Pages) :
              /\ candidates' = scrape_product_images(f.ok, f.page, product_url.host,
                                                     product_name)
              /\ all_candidates' = all_candidates \o candidates'
              /\ extracted' = Extracted(f.ok, f.page, product_url.host, product_name)
              /\ image_candidates' = Found(f.ok, f.page, product_url.host, product_name)
       ELSE UNCHANGED << candidates, all_candidates, extracted, image_candidates >>
    /\ pc' = "broaden"
    /\ UNCHANGED << inputs, ri, vi, validated_images, result, raised, history >>
    /\ UNCHANGED server

\* variant: broadening whenever the page gave few candidates
WantsSearch_Automatic(allow, cands) == Len(cands) < FewCandidates

\* line 319
WantsSearch(allow, cands) == allow /\ Len(cands) < FewCandidates

\* variant: the exception reaches the caller
OuterExcept_Reraise == [result |-> NoRef, raised |-> TRUE]

\* lines 388-390: what the caller gets when the body raises
OuterExcept == [result |-> EmptyStr, raised |-> FALSE]

\* lines 319-322 when the condition of line 319 is false
SkipSearch ==
    /\ pc = "broaden"
    /\ ~WantsSearch(allow_web_search, all_candidates)
    /\ pc' = "select"
    /\ UNCHANGED << inputs, all_candidates, candidates, ri, vi, validated_images,
                    result, raised, extracted, image_candidates, history >>
    /\ UNCHANGED server

\* lines 319-322: search_tool.invoke raises, returns a list, or something else
SearchInvoke ==
    /\ pc = "broaden"
    /\ WantsSearch(allow_web_search, all_candidates)
    /\ searches' = searches + 1
    /\ \E answer \in { "raise", "list", "other" } :
         CASE answer = "raise" ->
                /\ pc' = "done"
                /\ result' = OuterExcept.result
                /\ raised' = OuterExcept.raised
           [] answer = "list" ->
                /\ pc' = "results"
                /\ UNCHANGED << result, raised >>
           [] OTHER ->
                /\ pc' = "select"
                /\ UNCHANGED << result, raised >>
    /\ UNCHANGED << inputs, all_candidates, candidates, ri, vi, validated_images,
                    extracted, image_candidates, discovered, outcomes, fetches >>
    /\ UNCHANGED server

\* the loop of line 323 ends: no further element in search_results[:3], or
\* the break of line 328; its locals are dead from here on
ResultsDone ==
    /\ pc = "results"
    /\ pc' = "select"
    /\ ri' = 0
    /\ candidates' = << >>
    /\ extracted' = 0
    /\ image_candidates' = << >>
    /\ UNCHANGED << inputs, all_candidates, vi, validated_images,
                    result, raised, history >>
    /\ UNCHANGED server

\* variant: no break at the candidate cap
TakesResult_NoCap(n, cands) ==
    n < ResultSlice /\ n < MaxResults

\* the loop of line 323 takes another element
TakesResult(n, cands) ==
    n < ResultSlice /\ n < MaxResults /\ Len(cands) < CandidateCap

\* line 324 false: the element is not a dict with a 'url'
ResultSkipped ==
    /\ pc = "results"
    /\ TakesResult(ri, all_candidates)
    /\ ri' = ri + 1
    /\ UNCHANGED << pc, inputs, all_candidates, candidates, vi, validated_images,
                    result, raised, extracted, image_candidates, history >>
    /\ UNCHANGED server

\* lines 325-328: one search result is scraped
ScrapeResult ==
    /\ pc = "results"
    /\ TakesResult(ri, all_candidates)
    /\ \E w \in WebPages, ok \in BOOLEAN :
         /\ candidates' = scrape_product_images(ok, w.page, w.host, product_name)
         /\ all_candidates' = all_candidates \o candidates'
         /\ extracted' = Extracted(ok, w.page, w.host, product_name)
         /\ image_candidates' = Found(ok, w.page, w.host, product_name)
    /\ ri' = ri + 1
    /\ UNCHANGED << pc, inputs, vi, validated_images, result, raised, history >>
    /\ UNCHANGED server

\* variant: a placeholder image instead of the empty string
NoCandidatesResult_Placeholder == Abs(ImageHost, "placeholder")

\* the value of line 331
NoCandidatesResult == EmptyStr

\* lines 330-337
SortCandidates ==
    /\ pc = "select"
    /\ IF all_candidates = << >>
       THEN /\ result' = NoCandidatesResult
            /\ pc' = "done"
            /\ UNCHANGED << all_candidates, discovered >>
       ELSE /\ discovered' = all_candidates
            /\ all_candidates' = SortByPriority(all_candidates)
            /\ pc' = "validate"
            /\ UNCHANGED result
    /\ UNCHANGED << inputs, candidates, ri, vi, validated_images, raised,
                    extracted, image_candidates, outcomes, searches, fetches >>
    /\ UNCHANGED server

\* variant: a failed candidate discards what was validated before it
Collect_ResetOnFailure(validated, candidate, metadata) ==
    IF metadata = << >> THEN << >>
    ELSE Append(validated, Enrich(metadata[1], candidate))

\* lines 340-359: validated_images after one candidate
Collect(validated, candidate, metadata) ==
    IF metadata = << >> THEN validated
    ELSE Append(validated, Enrich(metadata[1], candidate))

\* variant: the loop does not stop at five validated images
MoreToValidate_NoStop(cands, n, validated) ==
    n < Len(FirstN(cands, TopCandidates))

\* lines 338 and 361-362: does the loop take another candidate
MoreToValidate(cands, n, validated) ==
    /\ n < Len(FirstN(cands, TopCandidates))
    /\ Len(validated) < EnoughValidated

\* variant: candidates are validated while search results are still scraped
ValidateNext_Eager ==
    /\ pc \in { "results", "validate" }
    /\ MoreToValidate(all_candidates, vi, validated_images)
    /\ \E resp \in Responses(all_candidates[vi + 1].url) :
         LET candidate == all_candidates[vi + 1]
             metadata == validate_image(candidate.url, product_name, resp)
         IN /\ validated_images' = Collect(validated_images, candidate, metadata)
            /\ outcomes' = Append(outcomes, metadata)
    /\ vi' = vi + 1
    /\ fetches' = fetches + 1
    /\ UNCHANGED << pc, inputs, all_candidates, candidates, ri, result, raised,
                    extracted, image_candidates, discovered, searches >>
    /\ UNCHANGED server

\* lines 338-362, one iteration
ValidateNext ==
    /\ pc = "validate"
    /\ MoreToValidate(all_candidates, vi, validated_images)
    /\ \E resp \in Responses(all_candidates[vi + 1].url) :
         LET candidate == all_candidates[vi + 1]
             metadata == validate_image(candidate.url, product_name, resp)
         IN /\ validated_images' = Collect(validated_images, candidate, metadata)
            /\ outcomes' = Append(outcomes, metadata)
    /\ vi' = vi + 1
    /\ fetches' = fetches + 1
    /\ UNCHANGED << pc, inputs, all_candidates, candidates, ri, result, raised,
                    extracted, image_candidates, discovered, searches >>
    /\ UNCHANGED server

\* lines 364-386
Score ==
    /\ pc = "validate"
    /\ ~MoreToValidate(all_candidates, vi, validated_images)
    /\ result' = SelectImage(all_candidates, validated_images)
    /\ pc' = "done"
    /\ UNCHANGED << inputs, all_candidates, candidates, ri, vi, validated_images,
                    raised, extracted, image_candidates, history >>
    /\ UNCHANGED server

Next ==
    \/ Call
    \/ Return
    \/ ScrapePrimary
    \/ SkipSearch
    \/ SearchInvoke
    \/ ResultsDone
    \/ ResultSkipped
    \/ ScrapeResult
    \/ SortCandidates
    \/ ValidateNext
    \/ Score

Spec == Init /\ [][Next]_vars

\* the steps of a running call
Body ==
    \/ ScrapePrimary
    \/ SkipSearch
    \/ SearchInvoke
    \/ ResultsDone
    \/ ResultSkipped
    \/ ScrapeResult
    \/ SortCandidates
    \/ ValidateNext
    \/ Score

(***************************************************************************)
(* The personalization session store (src/main.py, lines 54-144).          *)
(***************************************************************************)
\* recency once session_id was put or got, over the keys the store keeps
Used(store_after, session_id) ==
    LET kept == Keys(store_after)
    IN SelectSeq(Append(SelectSeq(recency, LAMBDA i : i # session_id), session_id),
                 LAMBDA i : i \in kept)

\* a call of _session_get(session_id), as the handlers make it
Lookup(session_id) ==
    LET g == session_get(sessions, session_id)
    IN /\ sessions' = g.store
       /\ got' = [id |-> session_id, payload |-> g.payload]
       /\ IF g.payload = << >>
          THEN UNCHANGED recency
          ELSE recency' = Used(g.store, session_id)

\* personalization_init (lines 107-129): a new session under a fresh uuid
PersonalizationInit ==
    /\ next_id <= MaxIds
    /\ sessions' = session_put(sessions, next_id, Payload(FALSE))
    /\ recency' = Used(sessions', next_id)
    /\ next_id' = next_id + 1
    /\ UNCHANGED << requests, got, image, stream >>

\* personalization_answers (lines 132-144): 404 for an unknown id, else the
\* session is got, given its answers and put again
PersonalizationAnswers ==
    /\ requests < MaxRequests
    /\ requests' = requests + 1
    /\ \E session_id \in RequestIds :
         LET g == session_get(sessions, session_id)
         IN /\ got' = [id |-> session_id, payload |-> g.payload]
            /\ IF g.payload = << >>
               THEN UNCHANGED << sessions, recency >>
               ELSE /\ sessions' = session_put(g.store, session_id, Payload(TRUE))
                    /\ recency' = Used(sessions', session_id)
    /\ UNCHANGED << next_id, image, stream >>

\* the session lookup of research (lines 150-153) and of event_generator
\* (lines 205-210), as the store sees it
ResearchLookup ==
    /\ requests < MaxRequests
    /\ requests' = requests + 1
    /\ \E session_id \in RequestIds : Lookup(session_id)
    /\ UNCHANGED << next_id, image, stream >>

SessionNext ==
    \/ PersonalizationInit
    \/ PersonalizationAnswers
    \/ ResearchLookup

SessionSpec == Init /\ [][SessionNext]_vars

(***************************************************************************)
(* Research runs (src/main.py, execute_research and research_stream) and   *)
(* the progress registry (src/agent_graph.py, lines 6-29).                 *)
(***************************************************************************)
\* the k-th message run r emits
Message(r, k) == [run |-> r, k |-> k]
Progress(message) == [type |-> "progress", message |-> message]
Terminal(type) == [type |-> type, message |-> Message(0, 0)]

\* research (line 146) is a coroutine that calls execute_research itself:
\* while it runs, the event loop runs nothing else
LoopBlocked == \E r \in Runs : kind[r] = "post" /\ wpc[r] = "invoke"

\* the session lookup of a request: none without a session_id
RequestLookup(session_id) ==
    IF session_id = NoSession
    THEN UNCHANGED << sessions, got, recency >>
    ELSE Lookup(session_id)

\* event_generator up to executor.submit (lines 203-233): an error event
\* for an unknown session or an empty query, else the worker is started
StartStream(r) ==
    /\ kind[r] = "none"
    /\ ~LoopBlocked
    /\ kind' = [kind EXCEPT ![r] = "stream"]
    /\ \E session_id \in RequestIds \cup { NoSession }, query \in { "", "q" } :
         /\ RequestLookup(session_id)
         /\ LET session == session_get(sessions, session_id).payload
                resolved_query == IF session_id # NoSession /\ session # << >>
                                  THEN "q" ELSE query
            IN IF (session_id # NoSession /\ session = << >>) \/ resolved_query = ""
               THEN /\ events' = [events EXCEPT ![r] = << Terminal("error") >>]
                    /\ gpc' = [gpc EXCEPT ![r] = "closed"]
                    /\ UNCHANGED wpc
               ELSE /\ wpc' = [wpc EXCEPT ![r] = "set"]
                    /\ gpc' = [gpc EXCEPT ![r] = "check"]
                    /\ UNCHANGED events
    /\ UNCHANGED << emitted, progress_callback, pending, message_queue, delivered,
                    next_id, requests, image >>

\* research up to graph_app.invoke (lines 146-157 and 37-46): no callback
\* is given, so none is set
StartPost(r) ==
    /\ kind[r] = "none"
    /\ ~LoopBlocked
    /\ kind' = [kind EXCEPT ![r] = "post"]
    /\ \E session_id \in RequestIds \cup { NoSession } : RequestLookup(session_id)
    /\ wpc' = [wpc EXCEPT ![r] = "invoke"]
    /\ UNCHANGED << gpc, emitted, progress_callback, pending, message_queue, events,
                    delivered, next_id, requests, image >>

\* execute_research, lines 42-43, in the worker thread of a stream
WorkerSet(r) ==
    /\ wpc[r] = "set"
    /\ progress_callback' = r
    /\ wpc' = [wpc EXCEPT ![r] = "invoke"]
    /\ UNCHANGED << kind, gpc, emitted, pending, message_queue, events, delivered,
                    store, image >>

\* emit_progress (lines 19-29) called by a node of the graph of run r: the
\* registered callback, if any, hands the message to its loop (line 224)
WorkerEmit(r) ==
    /\ wpc[r] = "invoke"
    /\ emitted[r] < MaxMessages
    /\ emitted' = [emitted EXCEPT ![r] = @ + 1]
    /\ IF progress_callback # 0
       THEN /\ pending' = [pending EXCEPT ![progress_callback] =
                              Append(@, Message(r, emitted[r] + 1))]
            /\ delivered' = [delivered EXCEPT ![progress_callback] =
                                Append(@, Message(r, emitted[r] + 1))]
       ELSE UNCHANGED << pending, delivered >>
    /\ UNCHANGED << kind, wpc, gpc, progress_callback, message_queue, events,
                    store, image >>

\* graph_app.invoke returns or raises, and the finally of lines 47-49
\* clears the registry; the future of a stream is done
WorkerFinish(r) ==
    /\ wpc[r] = "invoke"
    /\ progress_callback' = 0
    /\ wpc' = [wpc EXCEPT ![r] = "finished"]
    /\ UNCHANGED << kind, gpc, emitted, pending, message_queue, events, delivered,
                    store, image >>

\* the event loop runs one callback scheduled by call_soon_threadsafe:
\* message_queue.put_nowait(message)
LoopRunsCallback(r) ==
    /\ ~LoopBlocked
    /\ pending[r] # << >>
    /\ message_queue' = [message_queue EXCEPT ![r] = Append(@, Head(pending[r]))]
    /\ pending' = [pending EXCEPT ![r] = Tail(@)]
    /\ UNCHANGED << kind, wpc, gpc, emitted, progress_callback, events, delivered,
                    store, image >>

\* lines 237-242: wait_for(message_queue.get(), 0.5) returns a message,
\* sent as a progress event, or times out on an empty queue (a heartbeat
\* comment, which is not an event)
Resume(r) ==
    /\ gpc[r] = "wait"
    /\ ~LoopBlocked
    /\ IF message_queue[r] # << >>
       THEN /\ events' = [events EXCEPT ![r] = Append(@, Progress(Head(message_queue[r])))]
            /\ message_queue' = [message_queue EXCEPT ![r] = Tail(@)]
       ELSE UNCHANGED << events, message_queue >>
    /\ gpc' = [gpc EXCEPT ![r] = "check"]
    /\ UNCHANGED << kind, wpc, emitted, progress_callback, pending, delivered,
                    store, image >>

\* lines 245-259 from the test of line 245 to the next yield: a queued
\* message is sent, or on an empty queue the terminal event (complete, or
\* error for an empty final_response or an exception of the run)
DrainStep(r) ==
    IF message_queue[r] # << >>
    THEN /\ events' = [events EXCEPT ![r] = Append(@, Progress(Head(message_queue[r])))]
         /\ message_queue' = [message_queue EXCEPT ![r] = Tail(@)]
         /\ gpc' = [gpc EXCEPT ![r] = "drain"]
    ELSE /\ \E type \in { "complete", "error" } :
              events' = [events EXCEPT ![r] = Append(@, Terminal(type))]
         /\ gpc' = [gpc EXCEPT ![r] = "closed"]
         /\ UNCHANGED message_queue

\* line 236: the test `while not future.done()`, and what follows it
\* without an await when the future is done
Check(r) ==
    /\ gpc[r] = "check"
    /\ ~LoopBlocked
    /\ IF wpc[r] # "finished"
       THEN /\ gpc' = [gpc EXCEPT ![r] = "wait"]
            /\ UNCHANGED << events, message_queue >>
       ELSE DrainStep(r)
    /\ UNCHANGED << kind, wpc, emitted, progress_callback, pending, delivered,
                    store, image >>

\* lines 245-259 after a progress event of the loop of line 245
Drain(r) ==
    /\ gpc[r] = "drain"
    /\ ~LoopBlocked
    /\ DrainStep(r)
    /\ UNCHANGED << kind, wpc, emitted, progress_callback, pending, delivered,
                    store, image >>

StreamNext ==
    \E r \in Runs :
        \/ StartStream(r)
        \/ StartPost(r)
        \/ WorkerSet(r)
        \/ WorkerEmit(r)
        \/ WorkerFinish(r)
        \/ LoopRunsCallback(r)
        \/ Resume(r)
        \/ Check(r)
        \/ Drain(r)

StreamSpec == Init /\ [][StreamNext]_vars

(***************************************************************************)
(* Properties.                                                             *)
(***************************************************************************)
\* the call has returned through lines 364-386, after the validation loop
Selected == pc = "done" /\ discovered # << >>

\* C1: the list returned by one scrape_product_images call never holds two
\* entries with the same url
C1_NoDuplicateUrls ==
    \A i, j \in 1..Len(candidates) :
        i # j => candidates[i].url # candidates[j].url

\* a scrape that found the same url more than once and returned several entries
C1_Witness ==
    /\ Len(candidates) >= 2
    /\ extracted > Len(candidates)

\* C2: every image validate_image accepts, and so every entry of
\* validated_images, is at least 200 wide and 200 high, and when the scoring
\* step picks a winner it is one of these entries
C2_SizeFloor ==
    /\ \A i \in 1..Len(outcomes) :
          outcomes[i] # << >> =>
              outcomes[i][1].width >= 200 /\ outcomes[i][1].height >= 200
    /\ \A i \in 1..Len(validated_images) :
          validated_images[i].width >= 200 /\ validated_images[i].height >= 200
    /\ (Selected /\ validated_images # << >>) =>
          \E i \in 1..Len(validated_images) : validated_images[i].url = result

\* the candidate whose only image is 180x300 was fetched and dropped, and
\* another image was kept and returned
C2_Witness ==
    /\ Selected
    /\ validated_images # << >>
    /\ \E i \in 1..Len(outcomes) :
          all_candidates[i].url.path = "banner" /\ outcomes[i] = << >>

\* the candidates have the highest base priority first
HighestPriorityFirst(cands) ==
    \A i \in 1..Len(cands) : cands[1].priority >= cands[i].priority

\* C3: when candidates exist and validation kept none of them, the call
\* returns the url of the candidate with the highest base priority, and
\* that is not the empty (NotFound) result
C3_DegradeGracefully ==
    (Selected /\ validated_images = << >>) =>
        /\ HighestPriorityFirst(all_candidates)
        /\ result = all_candidates[1].url
        /\ result # EmptyStr

\* C4: with no candidate after extraction and broadening the call returns
\* the empty string and validate_image was never called
C4_NoCandidatesNotFound ==
    (pc = "done" /\ all_candidates = << >>) =>
        result = EmptyStr /\ fetches = 0 /\ outcomes = << >>

\* scenario C: a fetched product page without images, broader search off
C4_Witness ==
    /\ pc = "done"
    /\ all_candidates = << >>
    /\ product_url.kind = "http"
    /\ ~allow_web_search
    /\ searches = 0

Running == pc \notin { "idle", "done" }

\* an upper bound on the steps a running call still takes
Variant ==
    CASE pc = "start"    -> TopCandidates + ResultSlice + 6
      [] pc = "broaden"  -> TopCandidates + ResultSlice + 5
      [] pc = "results"  -> TopCandidates + 4 + (ResultSlice - ri)
      [] pc = "select"   -> TopCandidates + 3
      [] pc = "validate" -> 1 + (TopCandidates - vi)
      [] OTHER           -> 0

\* C5: no exception leaves find_product_image, the value returned is a
\* string (a url or the empty string), and every call returns: a running
\* call always has a next step, and each step brings the return nearer
C5_NeverRaises ==
    /\ [](~raised)
    /\ [](pc = "done" => result.kind \in { "abs", "rel", "data", "empty" })
    /\ [](Running => ENABLED Body)
    /\ [][Running => Variant' < Variant /\ Variant' >= 0]_vars

\* the search provider raised after the page had given candidates, and the
\* call returned the empty string
C5_Witness ==
    /\ pc = "done"
    /\ searches = 1
    /\ all_candidates # << >>
    /\ discovered = << >>
    /\ result = EmptyStr

\* the score as the claim states it
ClaimedScore(m) ==
    m.priority
    + (IF m.width >= 800 /\ m.height >= 800 THEN 2
       ELSE IF m.width >= 400 /\ m.height >= 400 THEN 1 ELSE 0)
    + (IF m.has_product_keywords THEN 1 ELSE 0)
    - (IF m.aspect_ratio < 60 \/ m.aspect_ratio > 180 THEN 1 ELSE 0)

MaxScore(validated) ==
    { i \in 1..Len(validated) :
        \A j \in 1..Len(validated) :
            ClaimedScore(validated[i]) >= ClaimedScore(validated[j]) }

\* C6: with at least one validated image the call returns the url of a
\* validated image whose score is maximal
C6_ReturnsMaxScore ==
    (Selected /\ validated_images # << >>) =>
        \E i \in MaxScore(validated_images) : validated_images[i].url = result

\* the winner is not the image validated first, and not every image has
\* the maximal score
C6_Witness ==
    /\ Selected
    /\ Len(validated_images) >= 2
    /\ validated_images[1].url # result
    /\ 1 \notin MaxScore(validated_images)

\* position in the sorted all_candidates of the i-th validated image
VPos(i) ==
    CHOOSE s \in 1..Len(outcomes) :
        /\ outcomes[s] # << >>
        /\ Cardinality({ t \in 1..s : outcomes[t] # << >> }) = i

\* position a stable descending sort by priority gives to discovered[d]
Rank(d) ==
    1 + Cardinality({ e \in 1..Len(discovered) :
                        \/ discovered[e].priority > discovered[d].priority
                        \/ /\ discovered[e].priority = discovered[d].priority
                           /\ e < d })

\* extraction order of the i-th validated image
Disc(i) == CHOOSE d \in 1..Len(discovered) : Rank(d) = VPos(i)

\* base priority of the i-th validated image
BasePriority(i) == all_candidates[VPos(i)].priority

\* C7 as stated: among the validated images of maximal score the one
\* discovered earliest in extraction order is returned
C7_EarliestDiscoveredWins ==
    (Selected /\ validated_images # << >>) =>
        \E w \in MaxScore(validated_images) :
            /\ validated_images[w].url = result
            /\ \A j \in MaxScore(validated_images) : Disc(w) <= Disc(j)

\* C7 amended: among the validated images of maximal score the one with the
\* highest base priority is returned, and among those of equal base
\* priority the one discovered earliest
C7_PriorityThenDiscovery ==
    (Selected /\ validated_images # << >>) =>
        \E w \in MaxScore(validated_images) :
            /\ validated_images[w].url = result
            /\ \A j \in MaxScore(validated_images) :
                  \/ j = w
                  \/ BasePriority(w) > BasePriority(j)
                  \/ BasePriority(w) = BasePriority(j) /\ Disc(w) < Disc(j)

\* two validated images with different urls share the maximal score, and
\* the one discovered later has the higher base priority
C7_Witness ==
    /\ Selected
    /\ \E i, j \in MaxScore(validated_images) :
          /\ validated_images[i].url # validated_images[j].url
          /\ Disc(i) < Disc(j)
          /\ BasePriority(i) < BasePriority(j)
          /\ validated_images[j].url = result

\* C8: the search provider is called at most once per call, only with
\* allow_web_search set and fewer than 5 candidates from the product page,
\* and search results are scraped only after such a call
C8_SearchOptIn ==
    [][ /\ (searches' > searches =>
              searches = 0 /\ allow_web_search /\ Len(all_candidates) < 5)
        /\ (pc = "results" => allow_web_search /\ searches = 1)
        /\ (~allow_web_search => searches = 0 /\ pc # "results") ]_vars

\* a search result was scraped after the one search of the call
C8_Witness ==
    /\ pc = "results"
    /\ searches = 1
    /\ ri >= 1
    /\ candidates # << >>

\* C9 as stated: when the page gave candidates, they are validated whatever
\* the search provider does
C9_ProviderFailureLocal ==
    (pc = "done" /\ all_candidates # << >>) => fetches >= 1

\* s without its k-th element
RemoveAt(s, k) == SubSeq(s, 1, k - 1) \o SubSeq(s, k + 1, Len(s))

\* the loop of lines 338-362 over cands, candidate i answering outs[i]
RECURSIVE Replay(_, _, _, _)
Replay(cands, outs, n, validated) ==
    IF MoreToValidate(cands, n, validated) /\ n < Len(outs)
    THEN Replay(cands, outs, n + 1, Collect(validated, cands[n + 1], outs[n + 1]))
    ELSE [n |-> n, validated |-> validated,
          more |-> MoreToValidate(cands, n, validated)]

\* C10 as stated: a candidate that failed validation changes nothing for
\* the others: without it in the list the same other candidates are
\* validated, with the same results
C10_FailureAffectsOnlyItself ==
    Selected =>
        \A k \in 1..Len(outcomes) :
            outcomes[k] = << >> =>
                Replay(RemoveAt(all_candidates, k), RemoveAt(outcomes, k), 0, << >>)
                    = [n |-> vi - 1, validated |-> validated_images, more |-> FALSE]

\* C10 amended: the same, without the failed candidate among the 10
\* candidates considered (no candidate beyond them takes its place)
C10_FailureAffectsOnlyItselfInTop ==
    Selected =>
        \A k \in 1..Len(outcomes) :
            outcomes[k] = << >> =>
                Replay(RemoveAt(FirstN(all_candidates, TopCandidates), k),
                       RemoveAt(outcomes, k), 0, << >>)
                    = [n |-> vi - 1, validated |-> validated_images, more |-> FALSE]

\* a candidate failed, later ones were validated, and the list is longer
\* than the 10 considered
C10_Witness ==
    /\ Selected
    /\ Len(all_candidates) > TopCandidates
    /\ outcomes[1] = << >>
    /\ validated_images # << >>
    /\ vi = TopCandidates

\* scenario A: the only candidate is an og:image of base priority 10, and its
\* image validated as 1200x1200 with a product keyword in its url
ScenarioA ==
    /\ Selected
    /\ Len(discovered) = 1
    /\ discovered[1].source = "og_image"
    /\ discovered[1].priority = 10
    /\ Len(validated_images) = 1
    /\ validated_images[1].width = 1200
    /\ validated_images[1].height = 1200
    /\ validated_images[1].has_product_keywords

\* C11 as stated: in scenario A the score of the candidate is 13 and the
\* call returns its url
C11_ScenarioAScore13 ==
    ScenarioA =>
        /\ score_image(validated_images[1]) = 13
        /\ result = discovered[1].url

\* C11 amended: in scenario A the score of the candidate is 17 when the host
\* of the image url is on the list and 15 when it is not (base 10, the
\* boosts of validation, then 2 for resolution and 1 for the keyword in
\* score_image), and the call returns its url
C11_ScenarioAScore ==
    ScenarioA =>
        /\ score_image(validated_images[1])
              = (IF IsOfficial(discovered[1].url.host) THEN 17 ELSE 15)
        /\ result = discovered[1].url
        /\ result.kind = "abs"

\* scenario A with the image on a host of the list
C11_Witness ==
    /\ ScenarioA
    /\ IsOfficial(discovered[1].url.host)
    /\ result = discovered[1].url

\* positions in image_candidates of the first entry of each url
FirstSeen ==
    { i \in 1..Len(image_candidates) :
        \A j \in 1..(i - 1) : image_candidates[j].url # image_candidates[i].url }

\* C12: the list a scrape returns is image_candidates without the later
\* entries of a url already seen: for each url the entry discovered first
\* is kept, with its source and priority, and the kept entries stand in
\* discovery order
C12_FirstDiscoveredKept ==
    ~Unhashable(image_candidates) =>
        /\ Len(candidates) = Cardinality(FirstSeen)
        /\ \A i \in FirstSeen :
              candidates[Cardinality({ j \in FirstSeen : j <= i })] = image_candidates[i]

\* a url was discovered twice under different sources, the first entry was
\* kept and entries discovered after it were kept behind it
C12_Witness ==
    /\ Len(candidates) >= 2
    /\ \E i, j \in 1..Len(image_candidates) :
          /\ i < j
          /\ image_candidates[i].url = image_candidates[j].url
          /\ image_candidates[i].source # image_candidates[j].source
          /\ \E k \in 1..Len(candidates) : candidates[k] = image_candidates[i]

\* the metadata m with the adjusted priority p in place of its own
WithPriority(m, p) == [m EXCEPT !.priority = p]

\* C13: of two images that differ only in adjusted priority the one with
\* the higher adjusted priority has a score that is not smaller: every
\* validated image scores at least as much with the higher adjusted
\* priority of any other validated image as with its own
C13_ScoreMonotone ==
    \A i, j \in 1..Len(validated_images) :
        validated_images[j].priority >= validated_images[i].priority =>
            score_image(WithPriority(validated_images[i], validated_images[j].priority))
                >= score_image(validated_images[i])

\* the scoring step ran over validated images of different adjusted
\* priorities
C13_Witness ==
    /\ Selected
    /\ \E i, j \in 1..Len(validated_images) :
          /\ validated_images[j].priority > validated_images[i].priority
          /\ score_image(WithPriority(validated_images[i], validated_images[j].priority))
                > score_image(validated_images[i])

\* C14 as stated: a scrape never raises and a malformed element removes
\* only itself: every reference found on the page that is a string is
\* among the candidates the scrape returns
C14_MalformedRemovesOnlyItself ==
    /\ ~raised
    /\ \A i \in 1..Len(image_candidates) :
          image_candidates[i].url.kind # "obj" =>
              \E k \in 1..Len(candidates) : candidates[k].url = image_candidates[i].url

\* the phase a call is in: Extracting, Broadening, Validating (from the
\* test of line 330 on), and the terminal result
PhaseRank ==
    CASE pc = "start"    -> 1
      [] pc = "broaden"  -> 2
      [] pc = "results"  -> 2
      [] pc = "select"   -> 3
      [] pc = "validate" -> 3
      [] pc = "done"     -> 4
      [] OTHER           -> 0

\* C15: a call never goes back to an earlier phase; validate_image is
\* called only in the validating phase; after the first validate_image call
\* nothing is scraped or searched; the scoring step sees exactly the images
\* validate_image accepted since the call began; and the call ends with one
\* result, set once
C15_PhaseOrder ==
    [][ /\ (pc # "done" => PhaseRank' >= PhaseRank)
        /\ (pc = "done" => pc' = "idle")
        /\ (fetches' > fetches => pc = "validate" /\ pc' = "validate")
        /\ ((fetches > 0 /\ pc # "done") =>
               UNCHANGED << all_candidates, candidates, image_candidates, ri, searches >>)
        /\ ((all_candidates' # all_candidates \/ searches' # searches) =>
               \/ pc \in { "start", "broaden", "results" } /\ fetches = 0
               \/ pc = "select" /\ pc' = "validate" /\ fetches = 0
               \/ pc \in { "idle", "done" })
        /\ (pc = "idle" => fetches' = 0 /\ outcomes' = << >> /\ validated_images' = << >>)
        /\ ((pc = "validate" /\ pc' = "done") =>
               /\ Len(outcomes) = fetches
               /\ Len(validated_images)
                     = Cardinality({ s \in 1..Len(outcomes) : outcomes[s] # << >> })
               /\ \A i \in 1..Len(validated_images) :
                     validated_images[i].url = outcomes[VPos(i)][1].url)
        /\ (result # NoRef => pc = "done")
        /\ ((pc' = "done" /\ pc # "done") => result = NoRef /\ result' # NoRef)
      ]_vars

\* a call that went through every phase: the product page gave candidates,
\* a search result added one, images were validated and one was returned
C15_Witness ==
    /\ Selected
    /\ product_url.host = "shop.example.org"
    /\ searches = 1
    /\ \E i, j \in 1..Len(discovered) :
          i < j /\ discovered[i].priority = 8 /\ discovered[j].priority = 10
    /\ validated_images # << >>
    /\ \E i \in 1..Len(validated_images) : validated_images[i].url = result

\* C16: validate_image is called on at most 10 candidates, the first ones
\* of the list sorted by descending base priority (no candidate behind
\* them has a higher base priority than one of them), and on none after
\* the fifth validated image, so validated_images never holds more than 5
C16_ValidationBounds ==
    /\ [](/\ fetches <= 10
          /\ Len(validated_images) <= 5
          /\ Len(outcomes) = fetches
          /\ (pc = "validate" \/ Selected) =>
                /\ vi = fetches
                /\ \A i \in 1..vi : \A j \in (vi + 1)..Len(all_candidates) :
                      all_candidates[i].priority >= all_candidates[j].priority
                /\ Len(validated_images) = 5 => outcomes[vi] # << >>)
    /\ [][fetches' > fetches => fetches < 10 /\ Len(validated_images) < 5]_vars

\* the loop stopped at the fifth validated image, before the tenth
\* candidate and with candidates left
C16_Witness ==
    /\ Selected
    /\ Len(validated_images) = 5
    /\ vi < 10
    /\ vi < Len(all_candidates)
    /\ \E k \in 1..vi : outcomes[k] = << >>

\* at most 3 search results are taken, and none once 12 candidates are held
ResultLoopCaps ==
    /\ [](ri <= 3)
    /\ [][ri' > ri => ri < 3 /\ Len(all_candidates) < 12]_vars

\* C17 as stated: at most 3 search result pages are scraped, none once the
\* candidates number 12, and after broadening the list handed to
\* validation holds at most 12 candidates
C17_BroadeningCapped ==
    /\ ResultLoopCaps
    /\ []((pc = "validate" /\ searches = 1) => Len(all_candidates) <= 12)

\* C17 amended: at most 3 search result pages are scraped, and none once
\* the candidates number 12; a page is scraped only while fewer than 12
\* candidates are held, and all the candidates it returns are added
C17_BroadeningStops ==
    /\ ResultLoopCaps
    /\ [][(pc = "results" /\ all_candidates' # all_candidates) =>
             /\ Len(all_candidates) < 12
             /\ all_candidates' = all_candidates \o candidates']_vars

\* the loop stopped with search results left, holding more than 12
\* candidates
C17_Witness ==
    /\ pc = "results"
    /\ ri >= 1
    /\ ri < 3
    /\ Len(all_candidates) > 12

\* C18 as stated: every candidate url a scrape returns is absolute, it
\* starts with http
C18_AbsoluteUrls ==
    \A i \in 1..Len(candidates) : StartsWithHttp(candidates[i].url)

\* C19 as stated: validation rejects every image whose body is larger than
\* 2,500,000 bytes, so no accepted image is that large
C19_LargeBodyRejected ==
    /\ \A i \in 1..Len(outcomes) :
          outcomes[i] # << >> => outcomes[i][1].size_kb * 1024 <= 2500000
    /\ \A i \in 1..Len(validated_images) :
          validated_images[i].size_kb * 1024 <= 2500000

\* C20: the adjusted priority of a validated image is the base priority of
\* its candidate plus 2 if the host of the image url is on the list, plus 1
\* if has_product_keywords, plus 1 if it is at least 800 wide and 800 high,
\* each once and nothing else
C20_AdjustedPriority ==
    \A i \in 1..Len(validated_images) :
        validated_images[i].priority
            = BasePriority(i)
              + (IF IsOfficial(validated_images[i].url.host) THEN 2 ELSE 0)
              + (IF validated_images[i].has_product_keywords THEN 1 ELSE 0)
              + (IF validated_images[i].width >= 800 /\ validated_images[i].height >= 800
                 THEN 1 ELSE 0)

\* one validated image got the three bonuses and another got none
C20_Witness ==
    /\ Selected
    /\ \E i, j \in 1..Len(validated_images) :
          /\ validated_images[i].priority = BasePriority(i) + 4
          /\ validated_images[j].priority = BasePriority(j)

\* the base priority the claim gives to an entry, on a page whose domain is
\* trusted or not
TablePriority(c, trusted) ==
    CASE c.source = "og_image"      -> IF trusted THEN 10 ELSE 8
      [] c.source = "twitter_image" -> IF trusted THEN 9 ELSE 7
      [] c.source = "json_ld"       -> IF trusted THEN 10 ELSE 8
      [] c.source = "product_img_class" ->
            (IF trusted THEN 7 ELSE 5)
            + (IF \E kw \in NameTokens(product_name) : Contains(c.alt, kw)
               THEN 1 ELSE 0)
      [] OTHER -> c.priority

FollowsTable(trusted) ==
    \A i \in 1..Len(image_candidates) :
        image_candidates[i].priority = TablePriority(image_candidates[i], trusted)

\* C21: the entries a scrape collects from og:image, twitter:image, JSON-LD
\* and class-matched image tags have the base priority of the table for
\* the trust of the page's domain (the product page's while no search
\* result has been taken, one and the same trust for all entries of a
\* page otherwise), and at most 5 of them are class-matched
C21_PriorityTable ==
    /\ IF ri = 0
       THEN FollowsTable(IsOfficial(product_url.host))
       ELSE \E trusted \in BOOLEAN : FollowsTable(trusted)
    /\ Cardinality({ i \in 1..Len(image_candidates) :
                       image_candidates[i].source = "product_img_class" }) <= 5

\* a trusted product page gave an og:image and five class-matched entries,
\* one of them with a keyword in its alt text
C21_Witness ==
    /\ pc = "broaden"
    /\ IsOfficial(product_url.host)
    /\ \E i \in 1..Len(image_candidates) :
          image_candidates[i].source = "og_image" /\ image_candidates[i].priority = 10
    /\ \E i \in 1..Len(image_candidates) :
          image_candidates[i].source = "product_img_class" /\ image_candidates[i].priority = 8
    /\ Cardinality({ i \in 1..Len(image_candidates) :
                       image_candidates[i].source = "product_img_class" }) = 5

\* positions of the entries the scan of all image tags added
GenericEntries ==
    { i \in 1..Len(image_candidates) : image_candidates[i].source = "img_tag" }

\* C22: entries from the scan of all image tags exist only when the
\* earlier sources gave fewer than 5 entries, they stand behind those, none
\* of their urls contains icon, logo, sprite, pixel, blank or avatar, and
\* with them the page yields at most 15 entries
C22_GenericScan ==
    GenericEntries # {} =>
        /\ Len(image_candidates) - Cardinality(GenericEntries) < 5
        /\ \A i \in GenericEntries : \A j \in 1..Len(image_candidates) :
              j \notin GenericEntries => j < i
        /\ \A i \in GenericEntries :
              \A x \in { "icon", "logo", "sprite", "pixel", "blank", "avatar" } :
                  /\ ~Contains(image_candidates[i].url.host, x)
                  /\ ~Contains(image_candidates[i].url.path, x)
        /\ Len(image_candidates) <= 15
        /\ Len(candidates) <= 15

\* the scan stopped at the fifteenth entry
C22_Witness ==
    /\ Cardinality(GenericEntries) = 15
    /\ Len(candidates) = 15

\* C23 as stated: while research runs overlap, every message a streaming
\* run has emitted was passed to its own callback, no callback was passed
\* a message of another run, and the callback of a streaming run stays
\* registered while its graph executes
C23_CallbackIsolation ==
    \A r \in Runs :
        /\ \A i \in 1..Len(delivered[r]) : delivered[r][i].run = r
        /\ kind[r] = "stream" => Len(delivered[r]) = emitted[r]
        /\ (kind[r] = "stream" /\ wpc[r] = "invoke") => progress_callback = r

\* the messages of the progress events sent on the stream of run r
Sent(r) ==
    LET progress == SelectSeq(events[r], LAMBDA e : e.type = "progress")
    IN [ i \in 1..Len(progress) |-> progress[i].message ]

\* C24 as stated: a stream that has ended sent one terminal event, as its
\* last event, and before it one progress event for every message passed
\* to its callback, in the order of the calls
C24_StreamComplete ==
    \A r \in Runs :
        gpc[r] = "closed" =>
            /\ events[r] # << >>
            /\ events[r][Len(events[r])].type \in { "complete", "error" }
            /\ \A i \in 1..(Len(events[r]) - 1) : events[r][i].type = "progress"
            /\ Sent(r) = delivered[r]

\* the ids of the store, oldest item first
Order(s) == [ i \in 1..Len(s) |-> s[i].id ]

\* C25: the store never holds more than 200 sessions and keeps them in the
\* order of their last put or get; an eviction removes the session least
\* recently put or got, never the one just put or got; _session_get of an
\* id that is not in the store returns None and leaves the store as it is,
\* and of an id in the store returns its payload
C25_SessionStoreLRU ==
    /\ [](/\ Len(sessions) <= 200
          /\ Order(sessions) = recency)
    /\ [][ /\ \A id \in Keys(sessions) \ Keys(sessions') :
                /\ id = recency[1]
                /\ id # recency'[Len(recency')]
                /\ Len(sessions) = 200
           /\ Cardinality(Keys(sessions) \ Keys(sessions')) <= 1
           /\ requests' > requests =>
                IF got'.id \in Keys(sessions)
                THEN got'.payload # << >> /\ got'.id \in Keys(sessions')
                ELSE got'.payload = << >> /\ sessions' = sessions ]_vars

\* the store is full, session 1 was got or put again and is still there,
\* and session 2, put after session 1 was first put, has been evicted
C25_Witness ==
    /\ Len(sessions) = 200
    /\ requests >= 1
    /\ 1 \in Keys(sessions)
    /\ 2 \notin Keys(sessions)
====
